---- MODULE Spec2Model ----
(***************************************************************************)
(* A model of the Cashay cache orchestrator (src/src/Cashay.js): the       *)
(* public operations query() and mutate(), the continuation of             *)
(* queryServer() that runs when the transport replies, and the dependency  *)
(* bookkeeping of _addDeps().                                              *)
(*                                                                         *)
(* Documents are modelled at entity granularity: a normalized store, a     *)
(* denormalized response and a server reply are each a map from identity   *)
(* keys <<entity, item>> to an entity value.  A query string is modelled   *)
(* by the set of identity keys it selects.  A JavaScript object with       *)
(* optional keys is a function whose DOMAIN holds the keys present.        *)
(***************************************************************************)
EXTENDS Integers, Sequences, FiniteSets, TLC

\* ------------------------------------------------------------------ bounds

\* the consumers (componentIds) that call query()
Consumers == {"c1", "c2"}
\* the identity keys <<entity, item>> the server knows
Keys == {<<"Pets", 1>>, <<"Pets", 2>>}
\* the values the server can hold for an entity (its whole record, as one
\* value): the first pet never changes, the second one can
ValuesOf == [k \in Keys |-> IF k = <<"Pets", 1>> THEN {1} ELSE {1, 2}]
\* the mutation names callers pass to mutate()
MutationNames == {"m1"}
\* the transport calls that can be awaiting a reply at once
MaxInflight == 2
\* the cap on the length of a cached mutation's aggregate enhancer list
MaxEnhancers == 2

\* ----------------------------------------------------------------- helpers

Undefined == [undefined |-> TRUE]
UndefinedString == "undefined"
EmptyMap == <<>>

Restrict(f, S) == [k \in S |-> f[k]]
Put(f, k, v) == (k :> v) @@ f
Range(s) == {s[i] : i \in DOMAIN s}

\* a bag of transport calls: the number of calls awaiting a reply, by request
Requests == {[componentId |-> c, queryString |-> q] :
               c \in Consumers, q \in (SUBSET Keys) \ {{}}}
Pending(bag) == Cardinality({<<r, i>> \in Requests \X (1..MaxInflight) : i <= bag[r]})
Send(bag, calls) ==
  [r \in Requests |-> bag[r] + Cardinality({i \in DOMAIN calls : calls[i] = r})]
Resolve(bag, request) == [bag EXCEPT ![request] = @ - 1]

\* every document over the keys S the server can return
Documents(S) == {f \in [S -> UNION {ValuesOf[k] : k \in Keys}] :
                   \A k \in S : f[k] \in ValuesOf[k]}
\* what the state container can hold when the cache is constructed: nothing,
\* or the second pet
InitialStores == {EmptyMap, (<<"Pets", 2>> :> 1)}
\* the query string of each consumer (a component has one query string):
\* the identity keys it selects
QueryStringOf == [c \in Consumers |-> IF c = "c1" THEN Keys ELSE {<<"Pets", 2>>}]
\* the options a consumer passes to query(): the names Object.keys() yields
\* for its mutationHandlers and for its customMutations, in order ("bad" is
\* not in the schema)
Options(handlerNames, customNames) ==
  [handlerNames |-> handlerNames, customNames |-> customNames]
OptionsOf ==
  [c \in Consumers |->
     IF c = "c1"
     THEN {Options(<<>>, <<>>), Options(<<"m1">>, <<"m1">>),
           Options(<<"bad", "m1">>, <<>>), Options(<<>>, <<"bad">>)}
     ELSE {Options(<<>>, <<>>), Options(<<"m1", "bad">>, <<>>)}]
\* the mutation handler each consumer registers, by what it does when
\* called: "invalidate" raises the invalidate signal and returns nothing,
\* "change" returns a changed response
HandlerOf == [c \in Consumers |-> IF c = "c1" THEN "invalidate" ELSE "change"]
\* the componentId arrays callers pass to mutate() (Undefined: none passed)
ComponentIdLists == {<<"c2">>, <<"c2", "c1">>}

\* the schema's mutation names (schema.mutationSchema.fields)
mutationSchema == {"m1"}

VARIABLES
  store,                   \* the state container's current entities (store.getState().cashay.data)
  state,                   \* this.state: the value getToState(store) gave the constructor
  cachedQueries,           \* this.cachedQueries
  normalizedDeps,          \* this.normalizedDeps
  denormalizedDeps,        \* this.denormalizedDeps
  mutationHandlers,        \* this.mutationHandlers
  cachedMutations,         \* this.cachedMutations
  _willInvalidateListener, \* this._willInvalidateListener
  _invalidationQueue,      \* this._invalidationQueue
  inflight,                \* the transport calls awaiting a reply
  lastOp                   \* what the last operation was given and what it did

vars == <<store, state, cachedQueries, normalizedDeps, denormalizedDeps,
          mutationHandlers, cachedMutations, _willInvalidateListener,
          _invalidationQueue, inflight, lastOp>>

\* lastOp: the operation that ran last, its inputs (componentId, forceFetch,
\* unknownName: its options name a mutation the schema lacks; reply;
\* mutationName, possibleComponentIds), the path it took (out), and what it
\* did: the actions it dispatched, the transport calls it issued, the
\* handler calls it made, the active components mutate() resolved.
NoOp == [op |-> "none", componentId |-> "", forceFetch |-> FALSE, out |-> "",
         unknownName |-> FALSE, reply |-> Undefined, dispatched |-> <<>>,
         transportCalls |-> <<>>, mutationName |-> "",
         possibleComponentIds |-> Undefined, active |-> Undefined,
         handlerCalls |-> <<>>]

\* ------------------------------------------------- normalized documents

normalizeResponse(data) == [entities |-> data]

\* the union of two normalized stores; the second one's entity wins
mergeStores(a, b) ==
  [entities |->
     [k \in (DOMAIN a.entities) \cup (DOMAIN b.entities) |->
        IF k \in DOMAIN b.entities THEN b.entities[k] ELSE a.entities[k]]]

\* the entities of `incoming` that differ from the ones in `cashayDataState`;
\* Undefined when none does
shortenNormalizedResponse(incoming, cashayDataState) ==
  LET changed == {k \in DOMAIN incoming.entities :
                    k \notin DOMAIN cashayDataState.entities
                    \/ cashayDataState.entities[k] # incoming.entities[k]}
  IN IF changed = {} THEN Undefined
     ELSE [entities |-> Restrict(incoming.entities, changed)]

\* the identity keys a normalized response holds ('Pets.1' in the source)
makeNormalizedDeps(entities) == DOMAIN entities

\* what the reducer does with an INSERT_NORMALIZED action
reducer(st, action) == mergeStores(st, action.payload.response)

\* ------------------------------------------------------ cached queries

CachedQuery(queryString) ==
  [ast |-> [keys |-> queryString, sendToServer |-> {}, rewritten |-> FALSE],
   response |-> Undefined,
   error |-> UndefinedString,
   built |-> FALSE]

\* the tree the AST selects, as far as cashayDataState holds it, and the
\* selections it does not hold
denormalizeStore(ast, cashayDataState) ==
  [data |-> Restrict(cashayDataState.entities,
                     ast.keys \cap DOMAIN cashayDataState.entities),
   missing |-> ast.keys \ DOMAIN cashayDataState.entities]

createResponse(cachedQuery, cashayDataState, forceFetch) ==
  LET d == denormalizeStore(cachedQuery.ast, cashayDataState)
      firstRun == ~cachedQuery.built
  IN [cachedQuery EXCEPT
        !.ast.sendToServer = d.missing,
        !.response = [data |-> d.data,
                      isComplete |-> ~forceFetch /\ ~firstRun /\ d.missing = {},
                      firstRun |-> firstRun],
        !.built = TRUE]

\* the text of the selections flagged send-to-server; printing rewrites
\* the pagination arguments of the operation to the missing slice
printMinimalQuery(ast) ==
  [text |-> ast.sendToServer, operation |-> [ast EXCEPT !.rewritten = TRUE]]

rebuildOriginalArgs(ast) == [ast EXCEPT !.rewritten = FALSE]

HasResponse(cqs, componentId) ==
  componentId \in DOMAIN cqs /\ cqs[componentId].response # Undefined

\* --------------------------------------------------------- dependencies

HasDeps(dd, dep) == dep[1] \in DOMAIN dd /\ dep[2] \in DOMAIN dd[dep[1]]

Dependents(dd, dep) == IF HasDeps(dd, dep) THEN dd[dep[1]][dep[2]] ELSE {}

\* denormalizedDeps[entity][item].delete(componentId) for every dep of deps
\* (each has its levels)
DeleteDependent(dd, deps, componentId) ==
  [e \in DOMAIN dd |->
     [i \in DOMAIN dd[e] |->
        IF <<e, i>> \in deps THEN dd[e][i] \ {componentId} ELSE dd[e][i]]]

\* denormalizedDeps[entity][item].add(componentId) for every dep of deps,
\* creating the levels that are missing
AddDependent(dd, deps, componentId) ==
  LET items(e) == (IF e \in DOMAIN dd THEN DOMAIN dd[e] ELSE {})
                  \cup {dep[2] : dep \in {d \in deps : d[1] = e}}
  IN [e \in (DOMAIN dd) \cup {dep[1] : dep \in deps} |->
        [i \in items(e) |->
           IF <<e, i>> \in deps
           THEN Dependents(dd, <<e, i>>) \cup {componentId}
           ELSE dd[e][i]]]

\* _addDeps without the loop that removes the old deps
_addDepsNoRemoval(nd, dd, normalizedResponse, componentId) ==
  LET newNormalizedDeps == makeNormalizedDeps(normalizedResponse.entities)
      old == IF componentId \in DOMAIN nd THEN nd[componentId] ELSE {}
  IN [normalizedDeps |-> Put(nd, componentId, newNormalizedDeps),
      denormalizedDeps |-> AddDependent(dd, newNormalizedDeps \ old, componentId),
      threw |-> FALSE]

_addDeps(nd, dd, normalizedResponse, componentId) ==
  LET hasOld == componentId \in DOMAIN nd
      oldNormalizedDeps == IF hasOld THEN nd[componentId] ELSE {}
      newNormalizedDeps == makeNormalizedDeps(normalizedResponse.entities)
      newUniques == IF hasOld THEN newNormalizedDeps \ oldNormalizedDeps
                    ELSE newNormalizedDeps
      \* what is left of the old set once the deps of the new one are deleted
      oldOnly == oldNormalizedDeps \ newNormalizedDeps
      \* denormalizedDeps[entity][item].delete throws on a missing level
      threw == \E dep \in oldOnly : ~HasDeps(dd, dep)
      removed == DeleteDependent(dd, oldOnly, componentId)
  IN [normalizedDeps |-> Put(nd, componentId, newNormalizedDeps),
      denormalizedDeps |-> IF threw THEN removed ELSE AddDependent(removed, newUniques, componentId),
      threw |-> threw]

\* drop the response of every other component that depends on an entity of
\* normalizedResponse
flushDependencies(normalizedResponse, componentId, dd, cqs) ==
  LET flushSet == UNION {Dependents(dd, dep) : dep \in DOMAIN normalizedResponse.entities}
                  \ {componentId}
  IN [c \in DOMAIN cqs |->
        IF c \in flushSet THEN [cqs[c] EXCEPT !.response = Undefined] ELSE cqs[c]]

\* ------------------------------------------------------------- mutations

checkMutationInSchema(schema, mutationName) == mutationName \in schema

CachedMutation ==
  [fullMutation |-> UndefinedString,
   cachedComponentIds |-> Undefined,
   variableEnhancers |-> <<>>,
   singles |-> EmptyMap]

\* the enhancers namespaceMutation returns for a component's mutation: one
\* (named by the component) when the mutation has variables
namespaceMutation(componentId, hasVariables) ==
  IF hasVariables THEN <<componentId>> ELSE <<>>

\* the loop over Object.keys(mutationHandlers)
RECURSIVE registerHandlers(_, _, _, _)
registerHandlers(mh, componentId, names, resolve) ==
  IF names = <<>> THEN [mutationHandlers |-> mh, threw |-> FALSE]
  ELSE IF ~checkMutationInSchema(mutationSchema, Head(names))
  THEN [mutationHandlers |-> mh, threw |-> TRUE]
  ELSE LET mutationName == Head(names)
           listeners == IF mutationName \in DOMAIN mh THEN mh[mutationName] ELSE EmptyMap
       IN registerHandlers(Put(mh, mutationName, Put(listeners, componentId, resolve)),
                           componentId, Tail(names), resolve)

\* the loop over Object.keys(customMutations)
RECURSIVE registerCustomMutations(_, _, _)
registerCustomMutations(cms, componentId, names) ==
  IF names = <<>> THEN [cachedMutations |-> cms, threw |-> FALSE]
  ELSE IF ~checkMutationInSchema(mutationSchema, Head(names))
  THEN [cachedMutations |-> cms, threw |-> TRUE]
  ELSE LET mutationName == Head(names)
           cm == IF mutationName \in DOMAIN cms THEN cms[mutationName] ELSE CachedMutation
           \* the custom mutations callers write here have no variables
           single == [ast |-> "custom",
                      variableEnhancers |-> namespaceMutation(componentId, FALSE)]
           cm1 == IF componentId \in DOMAIN cm.singles THEN cm
                  ELSE [cm EXCEPT !.singles = Put(@, componentId, single)]
       IN registerCustomMutations(Put(cms, mutationName, cm1), componentId, Tail(names))

\* _prepareMutations without the schema check on the handler names: a name
\* the schema lacks is passed over
_prepareMutationsUnchecked(mh, cms, componentId, handlerNames, resolve, customNames) ==
  LET inSchema(name) == name \in mutationSchema
      hs == registerHandlers(mh, componentId, SelectSeq(handlerNames, inSchema), resolve)
      cs == registerCustomMutations(cms, componentId, customNames)
  IN [mutationHandlers |-> hs.mutationHandlers,
      cachedMutations |-> cs.cachedMutations,
      threw |-> cs.threw]

_prepareMutations(mh, cms, componentId, handlerNames, resolve, customNames) ==
  LET hs == registerHandlers(mh, componentId, handlerNames, resolve)
      cs == IF hs.threw THEN [cachedMutations |-> cms, threw |-> TRUE]
            ELSE registerCustomMutations(cms, componentId, customNames)
  IN [mutationHandlers |-> hs.mutationHandlers,
      cachedMutations |-> cs.cachedMutations,
      threw |-> cs.threw]

\* ---------------------------------------------------------------- query()

Init ==
  /\ store \in {[entities |-> e] : e \in InitialStores}
  /\ state = store
  /\ cachedQueries = EmptyMap
  /\ normalizedDeps = EmptyMap
  /\ denormalizedDeps = EmptyMap
  /\ mutationHandlers = EmptyMap
  /\ cachedMutations = EmptyMap
  /\ _willInvalidateListener = FALSE
  /\ _invalidationQueue = <<>>
  /\ inflight = [r \in Requests |-> 0]
  /\ lastOp = NoOp

\* a fast path that only a complete cached response takes
fastPathComplete(cqs, componentId, forceFetch) ==
  /\ ~forceFetch
  /\ componentId \in DOMAIN cqs
  /\ cqs[componentId].response # Undefined
  /\ cqs[componentId].response.isComplete

\* the test of the fast path: a cached response and no forceFetch
fastPath(cqs, componentId, forceFetch) ==
  ~forceFetch /\ HasResponse(cqs, componentId)

\* a choice of query text that always sends the minimal query
minimalQueryAlways(forceFetch, firstRun, queryString, minimalText) == minimalText

\* the text query() sends to the server: the original query on forceFetch or
\* a first run, else the minimal query
serverQueryStringOf(forceFetch, firstRun, queryString, minimalText) ==
  IF forceFetch \/ firstRun THEN queryString ELSE minimalText

\* query(queryString, {componentId, forceFetch, mutationHandlers,
\* customMutations})
Query(componentId, forceFetch, options) ==
  LET queryString == QueryStringOf[componentId]
      handlerNames == options.handlerNames
      customNames == options.customNames
      resolve == HandlerOf[componentId]
      unknown == \E name \in Range(handlerNames) \cup Range(customNames) :
                   name \notin mutationSchema
      op == [NoOp EXCEPT !.op = "query", !.componentId = componentId,
                         !.forceFetch = forceFetch, !.unknownName = unknown]
  IN
  IF fastPath(cachedQueries, componentId, forceFetch)
  THEN /\ lastOp' = [op EXCEPT !.out = "fast"]
       /\ UNCHANGED <<store, state, cachedQueries, normalizedDeps, denormalizedDeps,
                      mutationHandlers, cachedMutations, _willInvalidateListener,
                      _invalidationQueue, inflight>>
  ELSE
    LET cq0 == IF componentId \in DOMAIN cachedQueries
               THEN cachedQueries[componentId] ELSE CachedQuery(queryString)
        cq1 == createResponse(cq0, state, forceFetch)
        firstRun == cq1.response.firstRun
        deps == IF ~firstRun
                THEN _addDeps(normalizedDeps, denormalizedDeps,
                              normalizeResponse(cq1.response.data), componentId)
                ELSE [normalizedDeps |-> normalizedDeps,
                      denormalizedDeps |-> denormalizedDeps, threw |-> FALSE]
        needServer == ~deps.threw /\ ~cq1.response.isComplete
        minimal == ~(forceFetch \/ firstRun)
        printed == printMinimalQuery(cq1.ast)
        serverQueryString == serverQueryStringOf(forceFetch, firstRun, queryString,
                                                 printed.text)
        cq2 == IF needServer /\ minimal THEN [cq1 EXCEPT !.ast = printed.operation]
               ELSE cq1
        calls == IF needServer
                 THEN <<[componentId |-> componentId, queryString |-> serverQueryString]>>
                 ELSE <<>>
        pm == IF deps.threw
              THEN [mutationHandlers |-> mutationHandlers,
                    cachedMutations |-> cachedMutations, threw |-> TRUE]
              ELSE _prepareMutations(mutationHandlers, cachedMutations, componentId,
                                     handlerNames, resolve, customNames)
    IN /\ Pending(inflight) + Len(calls) <= MaxInflight
       /\ cachedQueries' = Put(cachedQueries, componentId, cq2)
       /\ normalizedDeps' = deps.normalizedDeps
       /\ denormalizedDeps' = deps.denormalizedDeps
       /\ inflight' = Send(inflight, calls)
       /\ mutationHandlers' = pm.mutationHandlers
       /\ cachedMutations' = pm.cachedMutations
       /\ lastOp' = [op EXCEPT !.out = IF pm.threw THEN "threw" ELSE "rebuilt",
                               !.transportCalls = calls]
       /\ UNCHANGED <<store, state, _willInvalidateListener, _invalidationQueue>>

\* ---------------------------------------------------------- queryServer()

JSONstringify(errors) ==
  IF errors = UndefinedString THEN UndefinedString ELSE "json:" \o errors

\* the replies the transport can give to a request for queryString: data,
\* errors, or both
Replies(queryString) ==
  {r \in {[hasData |-> hd, data |-> IF hd THEN d ELSE EmptyMap, errors |-> e] :
            hd \in BOOLEAN, d \in Documents(queryString),
            e \in {UndefinedString, "errors"}} :
     r.hasData \/ r.errors # UndefinedString}

\* a test of a reply that also takes errors for a failure
replyHasDataNoErrors(reply) == reply.hasData /\ reply.errors = UndefinedString

\* the test of a reply: it carries data the code goes on with
replyHasData(reply) == reply.hasData

\* an error branch that also drops the cached response
recordErrorDropsResponse(cachedQuery, reply) ==
  [cachedQuery EXCEPT !.error = JSONstringify(reply.errors), !.response = Undefined]

\* what an error reply does to the cached query
recordError(cachedQuery, reply) ==
  [cachedQuery EXCEPT !.error = JSONstringify(reply.errors)]

\* the action queryServer() dispatches for a reply
insertNormalized(normalizedMinimizedQueryResponse, normalizedResponseForStore, componentId) ==
  [type |-> "INSERT_NORMALIZED",
   payload |-> [response |-> normalizedMinimizedQueryResponse,
                componentId |-> componentId]]

\* the continuation of queryServer() once the transport call for `request`
\* has resolved
QueryServerReply(request, reply) ==
  LET componentId == request.componentId
      cachedQuery == cachedQueries[componentId]
      op == [NoOp EXCEPT !.op = "reply", !.componentId = componentId, !.reply = reply]
  IN
  /\ inflight[request] > 0
  /\ inflight' = Resolve(inflight, request)
  /\ UNCHANGED <<state, mutationHandlers, cachedMutations, _willInvalidateListener,
                 _invalidationQueue>>
  /\ IF ~replyHasData(reply)
     THEN /\ cachedQueries' = [cachedQueries EXCEPT
                                 ![componentId] = recordError(cachedQuery, reply)]
          /\ lastOp' = [op EXCEPT !.out = "error"]
          /\ UNCHANGED <<store, normalizedDeps, denormalizedDeps>>
     ELSE
       LET local == denormalizeStore(cachedQuery.ast, state)
           cq0 == [cachedQuery EXCEPT !.ast.sendToServer = local.missing]
           normalizedPartialResponse == normalizeResponse(local.data)
           normalizedMinimizedQueryResponse == normalizeResponse(reply.data)
           normalizedResponseForStore ==
             shortenNormalizedResponse(normalizedMinimizedQueryResponse, state)
       IN IF normalizedResponseForStore = Undefined
          THEN /\ cachedQueries' = Put(cachedQueries, componentId, cq0)
               /\ lastOp' = [op EXCEPT !.out = "unchanged"]
               /\ UNCHANGED <<store, normalizedDeps, denormalizedDeps>>
          ELSE
            LET fullNormalizedResponse ==
                  mergeStores(normalizedPartialResponse, normalizedMinimizedQueryResponse)
                cq1 == createResponse([cq0 EXCEPT !.ast = rebuildOriginalArgs(@)],
                                      fullNormalizedResponse, FALSE)
                deps == _addDeps(normalizedDeps, denormalizedDeps,
                                 fullNormalizedResponse, componentId)
                action == insertNormalized(normalizedMinimizedQueryResponse,
                                           normalizedResponseForStore, componentId)
            IN /\ normalizedDeps' = deps.normalizedDeps
               /\ denormalizedDeps' = deps.denormalizedDeps
               /\ IF deps.threw
                  THEN /\ cachedQueries' = Put(cachedQueries, componentId, cq1)
                       /\ lastOp' = [op EXCEPT !.out = "threw"]
                       /\ UNCHANGED store
                  ELSE /\ cachedQueries' =
                            flushDependencies(normalizedResponseForStore, componentId,
                                              deps.denormalizedDeps,
                                              Put(cachedQueries, componentId, cq1))
                       /\ store' = reducer(store, action)
                       /\ lastOp' = [op EXCEPT !.out = "stored",
                                               !.dispatched = <<action>>]

\* --------------------------------------------------------------- mutate()

arraysShallowEqual(a, b) == a # Undefined /\ b # Undefined /\ a.ids = b.ids

\* the components to update: of the ones given (or, with none given, of the
\* ones with a handler for the mutation), those with a handler and a query
makeComponentsToUpdate(mutationName, possibleComponentIds, cqs, mh) ==
  LET listeners == IF mutationName \in DOMAIN mh THEN DOMAIN mh[mutationName] ELSE {}
      candidates == IF possibleComponentIds = Undefined THEN <<"c1", "c2">>
                    ELSE possibleComponentIds.ids
      isActive(c) == c \in listeners /\ c \in DOMAIN cqs
      ids == SelectSeq(candidates, isActive)
  IN IF ids = <<>> THEN Undefined ELSE [ids |-> ids]

\* a mutate() that goes on with no component to update
noQueriesToUpdateNever(componentIdsToUpdate) == FALSE

\* the test before the throw "Mutation has no queries to update"
noQueriesToUpdate(componentIdsToUpdate) == componentIdsToUpdate = Undefined

RECURSIVE _createMutationsFromQueries(_, _)
_createMutationsFromQueries(cachedSingles, componentIds) ==
  IF componentIds = <<>> THEN cachedSingles
  ELSE LET componentId == Head(componentIds)
           single == [ast |-> "derived",
                      \* the schema's mutation takes arguments
                      variableEnhancers |-> namespaceMutation(componentId, TRUE)]
       IN _createMutationsFromQueries(
            IF componentId \in DOMAIN cachedSingles THEN cachedSingles
            ELSE Put(cachedSingles, componentId, single),
            Tail(componentIds))

\* the enhancers the loop over componentIdsToUpdate pushes, in order
RECURSIVE pushedEnhancers(_, _)
pushedEnhancers(singles, componentIds) ==
  IF componentIds = <<>> THEN <<>>
  ELSE singles[Head(componentIds)].variableEnhancers
       \o pushedEnhancers(singles, Tail(componentIds))

\* a mutate() that drops the cached response of every component listening
\* to the mutation, to have it rebuilt, before it resolves the components
MutateDroppingResponses(mutationName, possibleComponentIds) ==
  LET listeners == IF mutationName \in DOMAIN mutationHandlers
                   THEN DOMAIN mutationHandlers[mutationName] ELSE {}
  IN /\ cachedQueries' =
          [c \in DOMAIN cachedQueries |->
             IF c \in listeners THEN [cachedQueries[c] EXCEPT !.response = Undefined]
             ELSE cachedQueries[c]]
     /\ lastOp' = [NoOp EXCEPT !.op = "mutate", !.mutationName = mutationName,
                               !.possibleComponentIds = possibleComponentIds,
                               !.out = IF mutationName \in DOMAIN cachedMutations
                                       THEN "Error: no queries to update"
                                       ELSE "TypeError: cachedMutation"]
     /\ UNCHANGED <<store, state, normalizedDeps, denormalizedDeps, mutationHandlers,
                    cachedMutations, _willInvalidateListener, _invalidationQueue,
                    inflight>>

\* mutate(mutationName, possibleComponentIds, options)
Mutate(mutationName, possibleComponentIds) ==
  LET op == [NoOp EXCEPT !.op = "mutate", !.mutationName = mutationName,
                         !.possibleComponentIds = possibleComponentIds]
  IN
  /\ UNCHANGED <<store, state, cachedQueries, normalizedDeps, denormalizedDeps,
                 mutationHandlers, _willInvalidateListener, _invalidationQueue,
                 inflight>>
  /\ IF mutationName \notin DOMAIN cachedMutations
     THEN \* destructuring undefined: TypeError
          /\ lastOp' = [op EXCEPT !.out = "TypeError: cachedMutation"]
          /\ UNCHANGED cachedMutations
     ELSE
       LET cachedMutation == cachedMutations[mutationName]
           reuse == /\ cachedMutation.fullMutation # UndefinedString
                    /\ \/ possibleComponentIds = cachedMutation.cachedComponentIds
                       \/ arraysShallowEqual(possibleComponentIds,
                                             cachedMutation.cachedComponentIds)
           componentIdsToUpdate ==
             makeComponentsToUpdate(mutationName, possibleComponentIds,
                                    cachedQueries, mutationHandlers)
       IN IF reuse
          THEN \* componentIdsToUpdate is not in scope at the handler pass
               /\ lastOp' = [op EXCEPT !.out = "ReferenceError: componentIdsToUpdate"]
               /\ UNCHANGED cachedMutations
          ELSE IF noQueriesToUpdate(componentIdsToUpdate)
          THEN /\ lastOp' = [op EXCEPT !.out = "Error: no queries to update"]
               /\ UNCHANGED cachedMutations
          ELSE
            \* (the throw above keeps an undefined list from the loops)
            LET ids == IF componentIdsToUpdate = Undefined THEN <<>>
                       ELSE componentIdsToUpdate.ids
                singles == _createMutationsFromQueries(cachedMutation.singles, ids)
                enhancers == cachedMutation.variableEnhancers
                             \o pushedEnhancers(singles, ids)
            IN /\ Len(enhancers) <= MaxEnhancers
               /\ cachedMutations' =
                    [cachedMutations EXCEPT ![mutationName] =
                       [cachedMutation EXCEPT !.singles = singles,
                                              !.variableEnhancers = enhancers]]
               /\ lastOp' = [op EXCEPT
                               !.active = componentIdsToUpdate,
                               \* variables(enhancer): TypeError; else the
                               \* handler pass names componentIdsToUpdate
                               \* outside the block that declares it
                               !.out = IF enhancers # <<>>
                                       THEN "TypeError: enhancer"
                                       ELSE "ReferenceError: componentIdsToUpdate"]

\* ------------------------------------------------------------------- spec

Next ==
  \/ \E componentId \in Consumers, forceFetch \in BOOLEAN :
        \E options \in OptionsOf[componentId] : Query(componentId, forceFetch, options)
  \/ \E request \in Requests :
        \E reply \in Replies(request.queryString) : QueryServerReply(request, reply)
  \/ \E mutationName \in MutationNames,
        possibleComponentIds \in {Undefined} \cup {[ids |-> l] : l \in ComponentIdLists} :
        Mutate(mutationName, possibleComponentIds)

Spec == Init /\ [][Next]_vars

\* ----------------------------------------------------------------- claims

\* C1: dependency symmetry. In every reachable state (so after every
\* completed _addDeps, in any sequence of query calls and server replies), a
\* consumer is in denormalizedDeps[T][id] if and only if the key <<T, id>> is
\* in normalizedDeps[consumer]: back-references of keys that left the
\* consumer's set are removed, those of new keys are added.
C1_DependencySymmetry ==
  \A c \in Consumers, k \in Keys :
    c \in Dependents(denormalizedDeps, k)
      <=> (c \in DOMAIN normalizedDeps /\ k \in normalizedDeps[c])

\* an _addDeps has removed a back-reference: a key's set of dependents exists
\* and is empty, while a consumer still depends on another key
C1_Witness ==
  \E c \in DOMAIN normalizedDeps, k \in Keys :
    /\ normalizedDeps[c] # {}
    /\ HasDeps(denormalizedDeps, k)
    /\ Dependents(denormalizedDeps, k) = {}

\* C2 (as amended): query() returns the cached response at once, changing
\* nothing and calling no transport, exactly when the consumer has a cached
\* response, complete or not, and forceFetch is not requested; with
\* forceFetch, or with no cached response, it rebuilds the response.
C2_FastPathOnAnyResponse ==
  [][lastOp'.op = "query" =>
       LET c == lastOp'.componentId
           cached == c \in DOMAIN cachedQueries /\ cachedQueries[c].response # Undefined
       IN /\ lastOp'.out = "fast" <=> (cached /\ ~lastOp'.forceFetch)
          /\ lastOp'.out = "fast" =>
               /\ lastOp'.transportCalls = <<>>
               /\ UNCHANGED <<store, cachedQueries, normalizedDeps, denormalizedDeps,
                              mutationHandlers, cachedMutations, inflight>>
          /\ lastOp'.out # "fast" =>
               /\ c \in DOMAIN cachedQueries'
               /\ cachedQueries'[c].built]_vars

\* a query() took the fast path with a cached response that is not complete
C2_Witness ==
  /\ lastOp.op = "query"
  /\ lastOp.out = "fast"
  /\ ~cachedQueries[lastOp.componentId].response.isComplete

\* C2 as the claim states it: the fast path is taken exactly when a complete
\* cached response exists and forceFetch is not requested.
C2_Original ==
  [][lastOp'.op = "query" =>
       LET c == lastOp'.componentId
           complete == /\ c \in DOMAIN cachedQueries
                       /\ cachedQueries[c].response # Undefined
                       /\ cachedQueries[c].response.isComplete
       IN lastOp'.out = "fast" <=> (complete /\ ~lastOp'.forceFetch)]_vars

\* C3: a reply without data records the error on the consumer's cached query,
\* leaves its cached response as it was, dispatches nothing, leaves the store,
\* the dependency graph and every other consumer's record unchanged, throws
\* nothing and issues no transport call.
C3_ErrorReply ==
  [][(lastOp'.op = "reply" /\ ~lastOp'.reply.hasData) =>
       LET c == lastOp'.componentId
       IN /\ lastOp'.out = "error"
          /\ cachedQueries'[c].error = "json:errors"
          /\ cachedQueries'[c].response = cachedQueries[c].response
          /\ DOMAIN cachedQueries' = DOMAIN cachedQueries
          /\ \A d \in DOMAIN cachedQueries \ {c} : cachedQueries'[d] = cachedQueries[d]
          /\ lastOp'.dispatched = <<>>
          /\ lastOp'.transportCalls = <<>>
          /\ Pending(inflight') = Pending(inflight) - 1
          /\ UNCHANGED <<store, normalizedDeps, denormalizedDeps>>]_vars

\* an error reply was handled for a consumer that had a cached response, and
\* the response is still there beside the recorded error
C3_Witness ==
  /\ lastOp.op = "reply"
  /\ lastOp.out = "error"
  /\ cachedQueries[lastOp.componentId].response # Undefined
  /\ cachedQueries[lastOp.componentId].error = "json:errors"

\* C4 (as amended): a reply is treated as a failure exactly when data is
\* absent; a reply with both errors and data is handled as a success: its
\* errors are not recorded, and when it is stored the whole of its data is
\* dispatched to the state container and is in the consumer's response.
C4_FailureIsAbsentData ==
  [][lastOp'.op = "reply" =>
       LET c == lastOp'.componentId
           reply == lastOp'.reply
       IN /\ lastOp'.out = "error" <=> ~reply.hasData
          /\ reply.hasData => cachedQueries'[c].error = cachedQueries[c].error
          /\ (reply.hasData /\ lastOp'.out = "stored") =>
               /\ Len(lastOp'.dispatched) = 1
               /\ lastOp'.dispatched[1].payload.response.entities = reply.data
               /\ \A k \in DOMAIN reply.data :
                    /\ store'.entities[k] = reply.data[k]
                    /\ cachedQueries'[c].response.data[k] = reply.data[k]]_vars

\* a reply with both data and errors was stored
C4_Witness ==
  /\ lastOp.op = "reply"
  /\ lastOp.reply.hasData
  /\ lastOp.reply.errors # UndefinedString
  /\ lastOp.out = "stored"
  /\ lastOp.dispatched # <<>>

\* C4 as the claim states it: a reply with errors, with or without data,
\* dispatches nothing and leaves the store and the consumer's response alone.
C4_Original ==
  [][(lastOp'.op = "reply"
      /\ (~lastOp'.reply.hasData \/ lastOp'.reply.errors # UndefinedString)) =>
       /\ lastOp'.dispatched = <<>>
       /\ store' = store
       /\ cachedQueries'[lastOp'.componentId].response
            = cachedQueries[lastOp'.componentId].response]_vars

\* C5 as the claim states it: a reply whose entities all equal what the state
\* container holds at the moment the reply is handled dispatches no
\* INSERT_NORMALIZED action.
C5_Original ==
  [][(lastOp'.op = "reply" /\ lastOp'.reply.hasData
      /\ \A k \in DOMAIN lastOp'.reply.data :
           /\ k \in DOMAIN store.entities
           /\ store.entities[k] = lastOp'.reply.data[k]) =>
       lastOp'.dispatched = <<>>]_vars

\* C6: a mutate() that resolves no active component fails synchronously (on
\* the missing cached mutation, or with "Mutation has no queries to update")
\* before it has invoked a handler, called the transport, dispatched an
\* action or changed the invalidation queue, the cached queries, the store or
\* the cached mutations.
C6_EmptyActiveSetThrows ==
  [][(lastOp'.op = "mutate"
      /\ makeComponentsToUpdate(lastOp'.mutationName, lastOp'.possibleComponentIds,
                                cachedQueries, mutationHandlers) = Undefined) =>
       /\ lastOp'.out \in {"TypeError: cachedMutation", "Error: no queries to update"}
       /\ lastOp'.handlerCalls = <<>>
       /\ lastOp'.transportCalls = <<>>
       /\ lastOp'.dispatched = <<>>
       /\ UNCHANGED <<_invalidationQueue, cachedQueries, store, inflight,
                      cachedMutations>>]_vars

\* a mutate() for a mutation with a cached mutation record found no component
\* to update and threw
C6_Witness ==
  /\ lastOp.op = "mutate"
  /\ lastOp.mutationName \in DOMAIN cachedMutations
  /\ lastOp.out = "Error: no queries to update"
  /\ lastOp.active = Undefined

\* C7 (as amended): a query() whose options name a mutation the schema lacks
\* fails synchronously exactly when it is not answered from the cache (no
\* cached response, or forceFetch); a call answered from the cached response
\* returns it and does not look at its options.
C7_UnknownNameThrowsOffFastPath ==
  [][(lastOp'.op = "query" /\ lastOp'.unknownName) =>
       LET c == lastOp'.componentId
           cached == c \in DOMAIN cachedQueries /\ cachedQueries[c].response # Undefined
       IN IF cached /\ ~lastOp'.forceFetch
          THEN lastOp'.out = "fast" /\ UNCHANGED <<mutationHandlers, cachedMutations>>
          ELSE lastOp'.out = "threw"]_vars

\* a later query() of a consumer (forceFetch, so off the fast path) named an
\* unknown mutation and threw
C7_Witness ==
  /\ lastOp.op = "query"
  /\ lastOp.unknownName
  /\ lastOp.forceFetch
  /\ lastOp.out = "threw"

\* C7 as the claim states it: every query() whose options name a mutation the
\* schema lacks throws, cached response or not.
C7_Original ==
  (lastOp.op = "query" /\ lastOp.unknownName) => lastOp.out = "threw"

\* C8 as the claim states it: a mutate() with active components (the only
\* failure the specification gives mutate() is the empty set) invokes each
\* active component's handler exactly once optimistically and then sends the
\* mutation to the transport.
C8_Original ==
  (lastOp.op = "mutate" /\ lastOp.active # Undefined) =>
    /\ \A c \in Range(lastOp.active.ids) :
         Cardinality({i \in DOMAIN lastOp.handlerCalls :
                        /\ lastOp.handlerCalls[i].componentId = c
                        /\ lastOp.handlerCalls[i].pass = "optimistic"}) = 1
    /\ lastOp.transportCalls # <<>>

\* C9 as the claim states it: after the handler pass of a mutate() whose
\* active components include one with an invalidating handler, exactly the
\* components with such a handler are on the invalidation queue and the
\* signal is false.
C9_Original ==
  (lastOp.op = "mutate" /\ lastOp.active # Undefined) =>
    /\ Range(_invalidationQueue)
         = {c \in Range(lastOp.active.ids) : HandlerOf[c] = "invalidate"}
    /\ ~_willInvalidateListener

\* C10 as the claim states it: after a mutate() that rebuilt the merged
\* mutation, the merged document and the component ids it was built for are
\* stored on the cached mutation.
C10_Original ==
  (lastOp.op = "mutate" /\ lastOp.active # Undefined) =>
    /\ cachedMutations[lastOp.mutationName].fullMutation # UndefinedString
    /\ cachedMutations[lastOp.mutationName].cachedComponentIds # Undefined

\* C11 as the claim states it: a consumer's complete cached response stops
\* being complete only in a query() of that consumer with forceFetch, or in
\* the reply of another consumer that changed, in the state container, an
\* entity the consumer depends on.
C11_Original ==
  [][\A c \in Consumers :
       LET complete(cqs) == /\ c \in DOMAIN cqs
                            /\ cqs[c].response # Undefined
                            /\ cqs[c].response.isComplete
       IN (complete(cachedQueries) /\ ~complete(cachedQueries')) =>
            \/ /\ lastOp'.op = "query"
               /\ lastOp'.componentId = c
               /\ lastOp'.forceFetch
            \/ /\ lastOp'.op = "reply"
               /\ lastOp'.componentId # c
               /\ lastOp'.reply.hasData
               /\ \E k \in DOMAIN lastOp'.reply.data :
                    /\ c \in Dependents(denormalizedDeps', k)
                    /\ \/ k \notin DOMAIN store.entities
                       \/ store.entities[k] # lastOp'.reply.data[k]]_vars

\* C12 as the claim states it: once the reply carrying the data of a
\* consumer's query has been handled (the only step that can complete the
\* consumer's response), the consumer's cached response is complete and no
\* longer flagged firstRun, also when the reply equals what the store holds.
C12_Original ==
  (lastOp.op = "reply" /\ lastOp.reply.hasData) =>
    LET response == cachedQueries[lastOp.componentId].response
    IN /\ response # Undefined
       /\ response.isComplete
       /\ ~response.firstRun

\* C13 as the claim states it: when mutate() has run its optimistic pass for
\* active components, the mutation's round trip is under way (its transport
\* call is issued) and the refetches queued on its behalf wait for its reply:
\* every invalidating active component is queued, in order, and no refetch
\* has been sent to the transport ahead of the mutation's reply.
C13_Original ==
  (lastOp.op = "mutate" /\ lastOp.active # Undefined) =>
    /\ \E i \in DOMAIN lastOp.transportCalls :
         lastOp.transportCalls[i] = [mutationName |-> lastOp.mutationName]
    /\ _invalidationQueue
         = SelectSeq(lastOp.active.ids, LAMBDA c : HandlerOf[c] = "invalidate")
    /\ \A i \in DOMAIN lastOp.transportCalls :
         lastOp.transportCalls[i] \notin Requests

\* C14 (as amended): while a transport call of a consumer awaits its reply,
\* the operations of others (query() calls and replies for other consumers,
\* mutate() calls) leave the consumer's recorded error alone, and leave its
\* cached response alone but for one case: the reply of another consumer
\* that is stored, and whose shortened fragment holds an entity the consumer
\* depends on, drops the consumer's response.
C14_InFlightEntryKeptButForFlush ==
  [][\A c \in Consumers :
       ((\E r \in Requests : r.componentId = c /\ inflight[r] > 0)
        /\ lastOp'.componentId # c) =>
         /\ c \in DOMAIN cachedQueries'
         /\ cachedQueries'[c].error = cachedQueries[c].error
         /\ \/ cachedQueries'[c].response = cachedQueries[c].response
            \/ /\ lastOp'.op = "reply"
               /\ lastOp'.out = "stored"
               /\ cachedQueries'[c].response = Undefined
               /\ \E k \in DOMAIN lastOp'.reply.data :
                    /\ c \in DOMAIN normalizedDeps' /\ k \in normalizedDeps'[c]
                    /\ \/ k \notin DOMAIN state.entities
                       \/ state.entities[k] # lastOp'.reply.data[k]]_vars

\* a consumer's response was dropped by another consumer's stored reply while
\* a transport call of the consumer awaits its reply
C14_Witness ==
  \E c \in DOMAIN cachedQueries :
    /\ \E r \in Requests : r.componentId = c /\ inflight[r] > 0
    /\ lastOp.op = "reply"
    /\ lastOp.componentId # c
    /\ lastOp.out = "stored"
    /\ cachedQueries[c].response = Undefined

\* C14 as the claim states it: while a transport call of a consumer awaits
\* its reply, the operations of others leave the consumer's response and
\* error as they were.
C14_Original ==
  [][\A c \in Consumers :
       ((\E r \in Requests : r.componentId = c /\ inflight[r] > 0)
        /\ lastOp'.componentId # c) =>
         /\ c \in DOMAIN cachedQueries'
         /\ cachedQueries'[c].error = cachedQueries[c].error
         /\ cachedQueries'[c].response = cachedQueries[c].response]_vars

\* C15 as the claim states it: a reply that is stored dispatches exactly one
\* INSERT_NORMALIZED action, after the response is recomputed and the
\* dependencies recorded, and the response that action carries is the
\* shortened fragment: the entities of the reply that differ from the store.
C15_Original ==
  [][(lastOp'.op = "reply" /\ lastOp'.out = "stored") =>
       LET c == lastOp'.componentId
           data == lastOp'.reply.data
           differing == {k \in DOMAIN data :
                           k \notin DOMAIN store.entities \/ store.entities[k] # data[k]}
       IN /\ cachedQueries'[c].response # Undefined
          /\ c \in DOMAIN normalizedDeps'
          /\ Len(lastOp'.dispatched) = 1
          /\ lastOp'.dispatched[1].type = "INSERT_NORMALIZED"
          /\ lastOp'.dispatched[1].payload.response.entities = Restrict(data, differing)]_vars

\* C16 as the claim states it: whenever no transport call of a consumer
\* awaits its reply, the arguments on the consumer's AST are the ones
\* originally requested (what a minimized request rewrote has been restored).
C16_Original ==
  \A c \in DOMAIN cachedQueries :
    (\A r \in Requests : r.componentId = c => inflight[r] = 0) =>
      ~cachedQueries[c].ast.rewritten

\* C17 as the claim states it: handling a consumer's reply drops the cached
\* response of another consumer only if that consumer depends on an entity of
\* the reply that differs from what the store holds (consumers that depend
\* only on entities echoed unchanged keep theirs), and never drops the
\* response just computed for the consumer the reply is for.
C17_Original ==
  [][lastOp'.op = "reply" =>
       LET c == lastOp'.componentId
           data == lastOp'.reply.data
           changed == {k \in DOMAIN data :
                         k \notin DOMAIN store.entities \/ store.entities[k] # data[k]}
       IN /\ \A d \in DOMAIN cachedQueries :
               (cachedQueries[d].response # Undefined
                /\ cachedQueries'[d].response = Undefined) =>
                 /\ d # c
                 /\ \E k \in changed : d \in Dependents(denormalizedDeps', k)
          /\ lastOp'.out = "stored" => cachedQueries'[c].response # Undefined]_vars

\* C18 as the claim states it: every reply is processed without throwing,
\* whatever else is in flight and whether or not the consumer's response was
\* dropped meanwhile, and once a reply with data has been handled the
\* consumer's response is the one computed from that reply: it is there and
\* holds the reply's entities.
C18_Original ==
  lastOp.op = "reply" =>
    /\ lastOp.out # "threw"
    /\ lastOp.reply.hasData =>
         LET response == cachedQueries[lastOp.componentId].response
         IN /\ response # Undefined
            /\ \A k \in DOMAIN lastOp.reply.data :
                 /\ k \in DOMAIN response.data
                 /\ response.data[k] = lastOp.reply.data[k]

\* C19 as the claim states it, where there are enhancers to apply: a mutate()
\* with active components applies the cached variable enhancers, in order,
\* to the caller's variables and sends the variables so obtained to the
\* transport with the mutation.
C19_Original ==
  (lastOp.op = "mutate" /\ lastOp.active # Undefined
   /\ cachedMutations[lastOp.mutationName].variableEnhancers # <<>>) =>
    /\ lastOp.out # "TypeError: enhancer"
    /\ \E i \in DOMAIN lastOp.transportCalls :
         lastOp.transportCalls[i].variables
           = [of |-> "options.variables",
              enhancedBy |-> cachedMutations[lastOp.mutationName].variableEnhancers]

C21_OneTransportCall ==
  [][(lastOp'.op = "query" /\ lastOp'.out # "fast") =>
       LET c == lastOp'.componentId
           response == cachedQueries'[c].response
           calls == lastOp'.transportCalls
       IN IF response.isComplete
          THEN calls = <<>> /\ inflight' = inflight
          ELSE /\ Len(calls) = 1
               /\ calls[1].componentId = c
               /\ calls[1].queryString =
                    IF lastOp'.forceFetch \/ response.firstRun
                    THEN QueryStringOf[c]
                    ELSE cachedQueries'[c].ast.sendToServer
               /\ inflight' = [inflight EXCEPT ![calls[1]] = @ + 1]]_vars

\* a query() sent a minimal query that is less than the original one
C21_Witness ==
  /\ lastOp.op = "query"
  /\ ~lastOp.forceFetch
  /\ Len(lastOp.transportCalls) = 1
  /\ lastOp.transportCalls[1].queryString # QueryStringOf[lastOp.componentId]

\* C22 as the claim states it: a query() that throws on a mutation name the
\* schema lacks has created or changed no cached query, recorded no
\* dependency, registered no handler or custom mutation, and issued no
\* transport call.
C22_Original ==
  [][(lastOp'.op = "query" /\ lastOp'.out = "threw") =>
       /\ lastOp'.transportCalls = <<>>
       /\ UNCHANGED <<cachedQueries, normalizedDeps, denormalizedDeps,
                      mutationHandlers, cachedMutations, inflight>>]_vars

\* C23 as the claim states it: after a mutate() that resolved its active
\* components, the cached mutation's aggregate enhancer list holds exactly the
\* enhancers of those components, each once: nothing of earlier builds is
\* left in it.
C23_Original ==
  (lastOp.op = "mutate" /\ lastOp.active # Undefined) =>
    LET cachedMutation == cachedMutations[lastOp.mutationName]
    IN cachedMutation.variableEnhancers
         = pushedEnhancers(cachedMutation.singles, lastOp.active.ids)

====
